---- MODULE Spec2Model ----
(***************************************************************************)
(* Stock-ledger transaction engine of SistemaEstoqueAndrey: the sale,      *)
(* purchase, assembly and reversal handlers running over the localStorage  *)
(* document store (storage.set / update / delete, runTransaction and       *)
(* writeBatch).  Every await of the handlers is one step of a browser tab, *)
(* so the steps of two tabs interleave exactly where the code awaits.      *)
(***************************************************************************)
EXTENDS Integers, Sequences, FiniteSets, TLC

\* ------------------------------------------------------------------ bounds
MaxQty == 3
MaxOps == 2
MaxDeletes == 1
MaxSoloDeletes == 2

\* ------------------------------------------------------------- the catalog
\* P is a FINAL product without a BOM, F a FINAL product assembled from the
\* INSUMO C.
Prods == {"P", "F", "C"}
Finals == {"P", "F"}
Tabs == {1, 2}

Min(a, b) == IF a < b THEN a ELSE b
Max(a, b) == IF a > b THEN a ELSE b

\* Product.bom entries {productId, quantity}
BomEntry(c, q) == [productId |-> c, quantity |-> q]
BomChoices == { <<BomEntry("C", 2)>>, <<BomEntry("C", 2), BomEntry("C", 1)>> }

\* A product document; a deleted document is kept as a tombstone so that the
\* collection stays a function over Prods.
Product(stock, cost, supplier, bom) ==
  [exists |-> TRUE, currentStock |-> stock, costPrice |-> cost,
   supplierId |-> supplier, bom |-> bom]
NoProduct ==
  [exists |-> FALSE, currentStock |-> 0, costPrice |-> 0,
   supplierId |-> "-", bom |-> <<>>]

Transaction(id, type, status, total, discount, net) ==
  [id |-> id, type |-> type, status |-> status, totalValue |-> total,
   discountValue |-> discount, netTotal |-> net]

TransactionItem(id, tid, pid, qty, price) ==
  [id |-> id, transactionId |-> tid, productId |-> pid, quantity |-> qty,
   price |-> price]

\* ------------------------------------------------------------- the storage
\* A store value: the three localStorage collections the engine touches.
StoreOf(ps, ts, is) == [products |-> ps, transactions |-> ts, items |-> is]

\* storage.set: merge into the document with that id, or push a new one.
StorageSet(st, coll, rec) ==
  IF coll = "transactions"
    THEN [st EXCEPT !.transactions = {t \in @ : t.id # rec.id} \cup {rec}]
    ELSE [st EXCEPT !.items = {t \in @ : t.id # rec.id} \cup {rec}]

\* The value written by one field of an update: increment(value) adds to the
\* stored number, anything else replaces it.
UpdatedStock(current, data) ==
  IF data.inc THEN current + data.value ELSE data.value

\* storage.update on the products collection: throws when the id is absent.
StorageUpdate(st, id, data) ==
  IF st.products[id].exists
    THEN [ok |-> TRUE,
          st |-> [st EXCEPT !.products[id] =
                    [@ EXCEPT !.currentStock = UpdatedStock(@, data),
                              !.costPrice = IF data.setCost THEN data.costPrice ELSE @,
                              !.supplierId = IF data.setCost THEN data.supplierId ELSE @]]]
    ELSE [ok |-> FALSE, st |-> st]

\* storage.delete: filters the id out; a missing id is not an error.
StorageDelete(st, coll, id) ==
  IF coll = "transactions"
    THEN [st EXCEPT !.transactions = {t \in @ : t.id # id}]
    ELSE IF coll = "transaction_items"
      THEN [st EXCEPT !.items = {t \in @ : t.id # id}]
      ELSE [st EXCEPT !.products[id] = NoProduct]

\* The operation log of runTransaction / writeBatch.
OpSet(coll, rec) == [type |-> "set", coll |-> coll, id |-> rec.id, data |-> rec]
OpDelete(coll, id) == [type |-> "delete", coll |-> coll, id |-> id, data |-> <<>>]
OpUpdate(pid, data) == [type |-> "update", coll |-> "products", id |-> pid, data |-> data]
SetStock(n) == [inc |-> FALSE, value |-> n, setCost |-> FALSE, costPrice |-> 0, supplierId |-> "-"]
Increment(n) == [inc |-> TRUE, value |-> n, setCost |-> FALSE, costPrice |-> 0, supplierId |-> "-"]
PurchaseUpdate(n, cost, supplier) ==
  [inc |-> TRUE, value |-> n, setCost |-> TRUE, costPrice |-> cost, supplierId |-> supplier]

\* One iteration of the commit loop.
ApplyOp(st, o) ==
  CASE o.type = "set" -> [ok |-> TRUE, st |-> StorageSet(st, o.coll, o.data)]
    [] o.type = "update" -> StorageUpdate(st, o.id, o.data)
    [] OTHER -> [ok |-> TRUE, st |-> StorageDelete(st, o.coll, o.id)]

\* ------------------------------------------------------------------ a tab
\* The handler a browser tab is running: its position and its locals.
NoErr == [kind |-> "none", product |-> "-", required |-> 0, available |-> 0]
Err(kind, product, required, available) ==
  [kind |-> kind, product |-> product, required |-> required, available |-> available]

IdleTab ==
  [pc |-> "idle", kind |-> "none", tid |-> 0, type |-> "-", lines |-> <<>>,
   discount |-> 0, i |-> 0, j |-> 0, details |-> <<>>, cons |-> <<>>,
   queue |-> <<>>, err |-> NoErr, wrote |-> 0, supplier |-> "-", held |-> <<>>]

\* The outcome of one step of a handler: its new locals and the store.
Outcome(tab, st) == [tab |-> tab, st |-> st]

\* A thrown error leaves the handler: nothing queued is applied any more.
Fail(tab, e) == [tab EXCEPT !.pc = "failed", !.err = e, !.queue = <<>>]

RECURSIVE SumLines(_)
SumLines(lines) ==
  IF lines = <<>> THEN 0
  ELSE Head(lines).quantity * Head(lines).price + SumLines(Tail(lines))

\* The first line at or after k whose snapshot has a BOM, 0 when there is none.
RECURSIVE FirstBomLine(_, _)
FirstBomLine(details, k) ==
  IF k > Len(details) THEN 0
  ELSE IF Len(details[k].bom) > 0 THEN k
  ELSE FirstBomLine(details, k + 1)

\* ------------------------------------------------------------ onFinalizeSale
\* A variant that takes the shortfall one unit too small.
ShortfallLessOne(det) == Max(0, det.quantity - det.fromStock - 1)

\* The units of a line the product's own stock does not cover.
Shortfall(det) == Max(0, det.quantity - det.fromStock)

\* Step 2 and 3 of onFinalizeSale: the writes queued on the transaction once
\* every check has passed.
SaleQueue(tab) ==
  LET subtotal == SumLines(tab.lines)
      n == Len(tab.details)
      head == <<OpSet("transactions",
                      Transaction(tab.tid, "IN", "COMPLETED", subtotal,
                                  tab.discount, subtotal - tab.discount))>>
      perLine == [k \in 1..(2 * n) |->
                   LET d == tab.details[(k + 1) \div 2] IN
                   IF k % 2 = 1
                     THEN OpSet("transaction_items",
                                TransactionItem(<<tab.tid, (k + 1) \div 2>>, tab.tid,
                                                d.productId, d.quantity, d.price))
                     ELSE OpUpdate(d.productId, SetStock(d.currentStock - d.fromStock))]
      consumption == [k \in 1..Len(tab.cons) |->
                       OpUpdate(tab.cons[k].productId,
                                SetStock(tab.cons[k].currentStock - tab.cons[k].required))]
  IN head \o perLine \o consumption

\* Leaves the update function: runTransaction starts its commit loop.
SaleCommitting(tab) ==
  [tab EXCEPT !.pc = "commit", !.i = 0, !.j = 0, !.queue = SaleQueue(tab)]

\* After the checks: the second pass re-reads every component for its cost.
SaleToCost(tab) ==
  LET k == FirstBomLine(tab.details, 1) IN
  IF k = 0 THEN SaleCommitting(tab)
  ELSE [tab EXCEPT !.pc = "cost", !.i = k, !.j = 1]

\* The position of the next transaction.get of the first pass.
SaleAdvance(tab) ==
  IF tab.j < Len(tab.details[tab.i].bom) THEN [tab EXCEPT !.j = @ + 1]
  ELSE IF tab.i < Len(tab.lines) THEN [tab EXCEPT !.i = @ + 1, !.j = 0]
  ELSE SaleToCost(tab)

\* A variant of the check that lets a component through when it is one
\* unit short.
ComponentShortByTwo(required, available) == required > available + 1

\* A variant without the check.
ComponentShortNever(required, available) == FALSE

\* The sufficiency check of one BOM component.
ComponentShort(required, available) == required > available

\* One transaction.get of the first pass with what follows it up to the
\* next await: the product of line i (j = 0) or component j of its BOM.
\* The result is the handler's new locals.
SaleCheck(tab, st) ==
  LET line == tab.lines[tab.i] IN
  IF tab.j = 0
    THEN LET rec == st.products[line.productId] IN
         IF ~rec.exists THEN Fail(tab, Err("NotFound", line.productId, 0, 0))
         ELSE SaleAdvance([tab EXCEPT !.details = Append(@,
                [productId |-> line.productId, quantity |-> line.quantity,
                 price |-> line.price, currentStock |-> rec.currentStock,
                 fromStock |-> Min(rec.currentStock, line.quantity),
                 bom |-> rec.bom])])
    ELSE LET det == tab.details[tab.i]
             comp == det.bom[tab.j]
             crec == st.products[comp.productId]
             required == Shortfall(det) * comp.quantity
         IN IF ~crec.exists
              THEN Fail(tab, Err("ComponentNotFound", comp.productId, 0, 0))
            ELSE IF ComponentShort(required, crec.currentStock)
              THEN Fail(tab, Err("InsufficientComponentStock", comp.productId,
                                 required, crec.currentStock))
            ELSE SaleAdvance([tab EXCEPT !.cons =
                   IF required > 0
                     THEN Append(@, [productId |-> comp.productId,
                                     currentStock |-> crec.currentStock,
                                     required |-> required])
                     ELSE @])

\* A variant that writes the new stock of a line as soon as the line's
\* product has been read, instead of queueing the write for the commit.
SaleGetEager(tab, st) ==
  LET t == SaleCheck(tab, st)
      pid == tab.lines[tab.i].productId
      stock == st.products[pid].currentStock
  IN IF tab.j = 0 /\ t.pc # "failed"
       THEN Outcome([t EXCEPT !.wrote = @ + 1],
                    StorageUpdate(st, pid,
                                  SetStock(stock - Min(stock, tab.lines[tab.i].quantity))).st)
     ELSE Outcome(t, st)

\* The step writes nothing: every write of a sale is queued for the commit.
SaleGet(tab, st) == Outcome(SaleCheck(tab, st), st)

\* One transaction.get of the second pass: compSnap.data() of a vanished
\* component is null and reading its costPrice throws.
SaleCostGet(tab, st) ==
  LET comp == tab.details[tab.i].bom[tab.j] IN
  Outcome(
  IF ~st.products[comp.productId].exists
    THEN Fail(tab, Err("TypeError", comp.productId, 0, 0))
  ELSE IF tab.j < Len(tab.details[tab.i].bom) THEN [tab EXCEPT !.j = @ + 1]
  ELSE LET k == FirstBomLine(tab.details, tab.i + 1) IN
       IF k = 0 THEN SaleCommitting(tab) ELSE [tab EXCEPT !.i = k, !.j = 1],
  st)

\* onFinalizeSale up to its first await.
SaleBegin(tab, tid, cart, discount) ==
  [tab EXCEPT !.pc = "read", !.kind = "sale", !.tid = tid, !.type = "IN",
              !.lines = cart, !.discount = discount, !.i = 1, !.j = 0]

\* -------------------------------------------------------- onFinalizePurchase
\* The batch of onFinalizePurchase: a line whose product is not in the loaded
\* product list queues nothing.
RECURSIVE PurchaseLineOps(_, _, _, _, _)
PurchaseLineOps(lines, k, tid, supplier, known) ==
  IF k > Len(lines) THEN <<>>
  ELSE (IF lines[k].productId \in known
          THEN <<OpSet("transaction_items",
                       TransactionItem(<<tid, k>>, tid, lines[k].productId,
                                       lines[k].quantity, lines[k].price)),
                 OpUpdate(lines[k].productId,
                          PurchaseUpdate(lines[k].quantity, lines[k].price, supplier))>>
          ELSE <<>>)
       \o PurchaseLineOps(lines, k + 1, tid, supplier, known)

\* A variant that stores the subtotal as the net total.
PurchaseQueueGross(lines, tid, discount, supplier, known) ==
  <<OpSet("transactions",
          Transaction(tid, "OUT", "COMPLETED", SumLines(lines), discount, SumLines(lines)))>>
  \o PurchaseLineOps(lines, 1, tid, supplier, known)

PurchaseQueue(lines, tid, discount, supplier, known) ==
  LET subtotal == SumLines(lines) IN
  <<OpSet("transactions",
          Transaction(tid, "OUT", "COMPLETED", subtotal, discount, subtotal - discount))>>
  \o PurchaseLineOps(lines, 1, tid, supplier, known)

\* A variant that reads the stock when the batch is built and queues the new
\* stock as a value instead of an increment.
PurchaseBeginSnapshot(tab, st, tid, lines, discount, supplier) ==
  [tab EXCEPT !.pc = "commit", !.kind = "purchase", !.tid = tid, !.type = "OUT",
              !.lines = lines, !.discount = discount, !.supplier = supplier,
              !.queue =
                <<OpSet("transactions",
                        Transaction(tid, "OUT", "COMPLETED", SumLines(lines), discount,
                                    SumLines(lines) - discount))>>
                \o [k \in 1..(2 * Len(lines)) |->
                      LET line == lines[(k + 1) \div 2] IN
                      IF k % 2 = 1
                        THEN OpSet("transaction_items",
                                   TransactionItem(<<tid, (k + 1) \div 2>>, tid, line.productId,
                                                   line.quantity, line.price))
                        ELSE OpUpdate(line.productId,
                                      [inc |-> FALSE,
                                       value |-> st.products[line.productId].currentStock
                                                   + line.quantity,
                                       setCost |-> TRUE, costPrice |-> line.price,
                                       supplierId |-> supplier])]]

\* onFinalizePurchase up to batch.commit().
PurchaseBegin(tab, st, tid, lines, discount, supplier) ==
  [tab EXCEPT !.pc = "commit", !.kind = "purchase", !.tid = tid, !.type = "OUT",
              !.lines = lines, !.discount = discount, !.supplier = supplier,
              !.queue = PurchaseQueue(lines, tid, discount, supplier,
                                      {p \in Prods : st.products[p].exists})]

\* ----------------------------------------------------- processAssemblyToStock
AssemblyQueue(tab) ==
  LET fin == tab.details[1]
      n == Len(tab.cons)
      head == <<OpSet("transactions", Transaction(tab.tid, "ASSEMBLY", "COMPLETED", 0, 0, 0))>>
      perComp == [k \in 1..(2 * n) |->
                   LET c == tab.cons[(k + 1) \div 2] IN
                   IF k % 2 = 1
                     THEN OpSet("transaction_items",
                                TransactionItem(<<tab.tid, (k + 1) \div 2>>, tab.tid,
                                                c.productId, c.required, 0))
                     ELSE OpUpdate(c.productId, SetStock(c.currentStock - c.required))]
  IN head \o perComp
     \o <<OpUpdate(fin.productId, SetStock(fin.currentStock + fin.quantity)),
          OpSet("transaction_items",
                TransactionItem(<<tab.tid, n + 1>>, tab.tid, fin.productId, fin.quantity, 0))>>

AssemblyBegin(tab, tid, pid, qty) ==
  [tab EXCEPT !.pc = "read", !.kind = "assembly", !.tid = tid, !.type = "ASSEMBLY",
              !.lines = <<[productId |-> pid, quantity |-> qty, price |-> 0]>>,
              !.i = 1, !.j = 0]

\* One tx.get of processAssemblyToStock: the final product (j = 0) or
\* component j of its BOM.
AssemblyGet(tab, st) ==
  LET line == tab.lines[1] IN
  Outcome(
  IF tab.j = 0
    THEN LET rec == st.products[line.productId] IN
         IF ~rec.exists THEN Fail(tab, Err("NotFound", line.productId, 0, 0))
         ELSE IF Len(rec.bom) = 0 THEN Fail(tab, Err("NoBomDefined", line.productId, 0, 0))
         ELSE [tab EXCEPT !.j = 1, !.details =
                 <<[productId |-> line.productId, quantity |-> line.quantity,
                    price |-> 0, currentStock |-> rec.currentStock,
                    fromStock |-> 0, bom |-> rec.bom]>>]
    ELSE LET det == tab.details[1]
             comp == det.bom[tab.j]
             crec == st.products[comp.productId]
             required == det.quantity * comp.quantity
             next == [tab EXCEPT !.j = @ + 1,
                        !.cons = Append(@, [productId |-> comp.productId,
                                            currentStock |-> crec.currentStock,
                                            required |-> required])]
         IN IF ~crec.exists
              THEN Fail(tab, Err("ComponentNotFound", comp.productId, 0, 0))
            ELSE IF ComponentShort(required, crec.currentStock)
              THEN Fail(tab, Err("InsufficientComponentStock", comp.productId,
                                 required, crec.currentStock))
            ELSE IF tab.j < Len(det.bom) THEN next
            ELSE [next EXCEPT !.pc = "commit", !.i = 0, !.j = 0,
                              !.queue = AssemblyQueue(next)],
  st)

\* ---------------------------------------------------------------- handleRevert
\* The items of a transaction in array order.
RECURSIVE ItemsSeq(_, _)
ItemsSeq(tid, itemSet) ==
  LET mine == {it \in itemSet : it.transactionId = tid} IN
  IF mine = {} THEN <<>>
  ELSE LET first == CHOOSE it \in mine : \A o \in mine : it.id[2] <= o.id[2]
       IN <<first>> \o ItemsSeq(tid, itemSet \ {first})

\* The inverse adjustment handleRevert computes for one item.
StockAdjustment(type, quantity) == IF type = "IN" THEN quantity ELSE 0 - quantity

\* A variant that keeps the transaction, marked CANCELLED, instead of
\* deleting it.
RevertQueueSoft(tab) ==
  LET n == Len(tab.lines)
      idx == {k \in 1..n : tab.details[k]}
      RECURSIVE Adjust(_)
      Adjust(k) ==
        IF k > n THEN <<>>
        ELSE (IF k \in idx
                THEN <<OpUpdate(tab.lines[k].productId,
                                Increment(StockAdjustment(tab.type, tab.lines[k].quantity)))>>
                ELSE <<>>) \o Adjust(k + 1)
  IN Adjust(1)
     \o [k \in 1..n |-> OpDelete("transaction_items", tab.lines[k].id)]
     \o <<OpSet("transactions", Transaction(tab.tid, tab.type, "CANCELLED", 0, 0, 0))>>

\* The writes handleRevert queues, on the transaction or on the fallback batch.
RevertQueue(tab) ==
  LET n == Len(tab.lines)
      idx == {k \in 1..n : tab.details[k]}
      RECURSIVE Adjust(_)
      Adjust(k) ==
        IF k > n THEN <<>>
        ELSE (IF k \in idx
                THEN <<OpUpdate(tab.lines[k].productId,
                                Increment(StockAdjustment(tab.type, tab.lines[k].quantity)))>>
                ELSE <<>>) \o Adjust(k + 1)
  IN Adjust(1)
     \o [k \in 1..n |-> OpDelete("transaction_items", tab.lines[k].id)]
     \o <<OpDelete("transactions", tab.tid)>>

\* After freshItems is known: Promise.all of the tx.get calls, or straight to
\* the commit when there is no item.
RevertReading(tab, lines, fallback) ==
  LET t == [tab EXCEPT !.lines = lines, !.details = <<>>, !.i = 1, !.j = 0,
                       !.queue = <<>>] IN
  IF lines = <<>>
    THEN [t EXCEPT !.pc = IF fallback THEN "fbcommit" ELSE "commit", !.i = 0,
                   !.queue = RevertQueue(t)]
  ELSE [t EXCEPT !.pc = IF fallback THEN "fbread" ELSE "read"]

\* handleRevert up to its first await, for the transaction and the items the
\* details dialog holds.
RevertBegin(tab, transaction, heldItems) ==
  LET t == [tab EXCEPT !.kind = "revert", !.tid = transaction.id,
                       !.type = transaction.type, !.held = heldItems]
  IN IF transaction.status = "CANCELLED"
       THEN Fail(t, Err("AlreadyCancelled", "-", 0, 0))
     ELSE IF Len(heldItems) > 0 THEN RevertReading(t, heldItems, FALSE)
     ELSE [t EXCEPT !.pc = "fetch"]

\* getDocs(itemsQuery) when the dialog holds no item.
RevertFetch(tab, st) ==
  Outcome(RevertReading(tab, ItemsSeq(tab.tid, st.items), tab.pc = "fbfetch"), st)

\* One product read of handleRevert: tx.get on the primary path, getDoc on
\* the fallback path.
RevertGet(tab, st) ==
  LET t == [tab EXCEPT !.details = Append(@, st.products[tab.lines[tab.i].productId].exists)]
  IN Outcome(IF tab.i < Len(tab.lines) THEN [t EXCEPT !.i = @ + 1]
             ELSE [t EXCEPT !.pc = IF tab.pc = "read" THEN "commit" ELSE "fbcommit",
                            !.i = 0, !.queue = RevertQueue(t)],
             st)

\* The catch block of handleRevert: the fallback starts over from the items
\* the dialog holds, or loads them again when it holds none.
RevertFallback(tab) ==
  IF Len(tab.held) > 0 THEN RevertReading(tab, tab.held, TRUE)
  ELSE [tab EXCEPT !.pc = "fbfetch", !.queue = <<>>]

\* ------------------------------------------------------------ the commit loop
\* One iteration of the loop of runTransaction or of writeBatch.commit.
CommitStep(tab, st) ==
  LET o == Head(tab.queue)
      r == ApplyOp(st, o)
  IN IF r.ok
       THEN Outcome([tab EXCEPT !.queue = Tail(@), !.wrote = @ + 1,
                                !.pc = IF Len(tab.queue) = 1 THEN "done" ELSE @],
                    r.st)
     ELSE IF tab.kind = "revert" /\ tab.pc = "commit"
       THEN Outcome(RevertFallback(tab), st)
     ELSE Outcome(Fail(tab, Err("StorageFailure", o.id, 0, 0)), st)

\* ------------------------------------------------------------ the sale form
\* A variant of the loop that leaves an entry of quantity <= 0 out instead
\* of returning 0.
RECURSIVE MinUnitsSkipping(_, _, _, _)
MinUnitsSkipping(bom, ps, k, minUnits) ==
  IF k > Len(bom) THEN (IF minUnits = <<>> THEN 0 ELSE minUnits[1])
  ELSE LET available == IF ps[bom[k].productId].exists
                          THEN ps[bom[k].productId].currentStock ELSE 0
           neededPerUnit == bom[k].quantity
       IN IF neededPerUnit <= 0 THEN MinUnitsSkipping(bom, ps, k + 1, minUnits)
          ELSE MinUnitsSkipping(bom, ps, k + 1,
                 IF minUnits = <<>> THEN <<available \div neededPerUnit>>
                 ELSE <<Min(minUnits[1], available \div neededPerUnit)>>)

\* The loop of computeVirtualStock from entry k on; minUnits is <<>> while it
\* is still Infinity and <<n>> afterwards.
RECURSIVE MinUnits(_, _, _, _)
MinUnits(bom, ps, k, minUnits) ==
  IF k > Len(bom) THEN (IF minUnits = <<>> THEN 0 ELSE minUnits[1])
  ELSE LET available == IF ps[bom[k].productId].exists
                          THEN ps[bom[k].productId].currentStock ELSE 0
           neededPerUnit == bom[k].quantity
           producible == available \div neededPerUnit
       IN IF neededPerUnit <= 0 THEN 0
          ELSE MinUnits(bom, ps, k + 1,
                        IF minUnits = <<>> THEN <<producible>>
                        ELSE <<Min(minUnits[1], producible)>>)

\* computeVirtualStock with a product list that is loaded.
computeVirtualStock(finalProduct, ps) ==
  IF ~finalProduct.exists \/ Len(finalProduct.bom) = 0 THEN 0
  ELSE MinUnits(finalProduct.bom, ps, 1, <<>>)

\* computeVirtualStock with the product list as the page holds it: null
\* until it is loaded.
ProductList(loaded, ps) == [loaded |-> loaded, items |-> ps]
computeVirtualStockOf(finalProduct, allProducts) ==
  IF ~allProducts.loaded THEN 0
  ELSE computeVirtualStock(finalProduct, allProducts.items)

\* handleAddItem: the cart after adding qty units of pid at the given price,
\* checked against the product list the form shows; the same cart when the
\* form refuses the item.
handleAddItem(cart, ps, pid, qty, price) ==
  LET sel == ps[pid]
      isBom == Len(sel.bom) > 0
      virtualStock == computeVirtualStock(sel, ps)
      shortfall == Max(0, qty - sel.currentStock)
      insufficient ==
        \E k \in 1..Len(sel.bom) :
          shortfall * sel.bom[k].quantity >
            (IF ps[sel.bom[k].productId].exists
               THEN ps[sel.bom[k].productId].currentStock ELSE 0)
      idx == {k \in 1..Len(cart) : cart[k].productId = pid}
  IN IF qty <= 0 THEN cart
     ELSE IF ~isBom /\ qty > sel.currentStock THEN cart
     ELSE IF isBom /\ qty > sel.currentStock + virtualStock THEN cart
     ELSE IF isBom /\ insufficient THEN cart
     ELSE IF idx # {}
       THEN LET k == CHOOSE k \in idx : TRUE
                newQuantity == cart[k].quantity + qty
            IN IF newQuantity > sel.currentStock + virtualStock THEN cart
               ELSE [cart EXCEPT ![k] = [@ EXCEPT !.quantity = newQuantity, !.price = price]]
     ELSE Append(cart, [productId |-> pid, quantity |-> qty, price |-> price])

\* ------------------------------------------------------------------- inputs
Qtys == (MaxQty - 1)..MaxQty
Discounts == {0, 1}
Costs == {3}
Suppliers == {"S1"}
\* Product.salePrice, the price the sale form proposes.
SalePrice == [p \in Finals |-> IF p = "P" THEN 5 ELSE 8]

\* The carts of one or two lines the sale form can be asked to hold.
CartLine(pid, qty) == [productId |-> pid, quantity |-> qty, price |-> SalePrice[pid]]
Carts ==
  {<<CartLine(p, q)>> : p \in Finals, q \in Qtys}
  \cup {c \in {<<CartLine(p1, q1), CartLine(p2, q2)>> :
                   p1 \in Finals, q1 \in Qtys, p2 \in Finals, q2 \in Qtys} :
          c[1].productId # c[2].productId}

\* The form holds the cart after handleAddItem accepted its lines one after
\* the other against the product list ps.
RECURSIVE AddAll(_, _, _)
AddAll(cart, ps, lines) ==
  IF lines = <<>> THEN cart
  ELSE AddAll(handleAddItem(cart, ps, Head(lines).productId, Head(lines).quantity,
                            Head(lines).price),
              ps, Tail(lines))

CartAccepted(cart, ps) ==
  /\ \A k \in 1..Len(cart) : ps[cart[k].productId].exists
  /\ AddAll(<<>>, ps, cart) = cart

PurchaseForms ==
  {<<[productId |-> p, quantity |-> MaxQty, price |-> c]>> : p \in Prods, c \in Costs}

\* Purchases of two lines; addItem keeps one line per product.
WidePurchaseForms ==
  {f \in {<<[productId |-> p1, quantity |-> MaxQty, price |-> c],
            [productId |-> p2, quantity |-> MaxQty - 1, price |-> c + 1]>> :
             p1 \in Prods, p2 \in Prods, c \in Costs} :
     f[1].productId # f[2].productId}

\* ------------------------------------------------------- a handler on its own
\* The next step of the handler a tab runs.
HandlerStep(tab, st) ==
  CASE tab.pc \in {"commit", "fbcommit"} -> CommitStep(tab, st)
    [] tab.kind = "sale" /\ tab.pc = "read" -> SaleGet(tab, st)
    [] tab.kind = "sale" /\ tab.pc = "cost" -> SaleCostGet(tab, st)
    [] tab.kind = "assembly" /\ tab.pc = "read" -> AssemblyGet(tab, st)
    [] tab.kind = "revert" /\ tab.pc \in {"fetch", "fbfetch"} -> RevertFetch(tab, st)
    [] tab.kind = "revert" /\ tab.pc \in {"read", "fbread"} -> RevertGet(tab, st)
    [] OTHER -> Outcome(tab, st)

\* A handler run from its first await to its return with nothing in between.
RECURSIVE RunAlone(_, _)
RunAlone(tab, st) ==
  IF tab.pc \in {"idle", "done", "failed"} THEN Outcome(tab, st)
  ELSE LET r == HandlerStep(tab, st) IN RunAlone(r.tab, r.st)

\* ------------------------------------------------------------------- state
\* products, transactions, items: the localStorage collections; tabs: the
\* handler each tab runs; opening: the store when the pages were first loaded
\* (what a form or dialog left open since then still shows).  log is history
\* only, of the operations begun while nothing else was running: the store
\* when the latest began, the store when the one before it began, and how the
\* latest returned operation ended.
VARIABLES products, transactions, items, tabs, opening, nextId, nops, ndel, log

vars == <<products, transactions, items, tabs, opening, nextId, nops, ndel, log>>

Store == StoreOf(products, transactions, items)

SetStoreNow(st) ==
  /\ products = st.products
  /\ transactions = st.transactions
  /\ items = st.items

\* The catalog after its first purchase: every product was created with stock
\* 0 and transaction 1 bought the opening stock at cost 1 from supplier S0.
OpeningStocks == {[P |-> 5, F |-> 1, C |-> 4]}

OpeningLines(stock) ==
  LET RECURSIVE Build(_)
      Build(ps) ==
        IF ps = <<>> THEN <<>>
        ELSE (IF stock[Head(ps)] > 0
                THEN <<[productId |-> Head(ps), quantity |-> stock[Head(ps)], price |-> 1]>>
                ELSE <<>>) \o Build(Tail(ps))
  IN Build(<<"P", "F", "C">>)

\* The store when the pages were loaded.
OpeningStore(stock, bom) ==
  LET lines == OpeningLines(stock) IN
  StoreOf([p \in Prods |->
             Product(stock[p], IF stock[p] > 0 THEN 1 ELSE 0,
                     IF stock[p] > 0 THEN "S0" ELSE "-",
                     IF p = "F" THEN bom ELSE <<>>)],
          {Transaction(1, "OUT", "COMPLETED", SumLines(lines), 0, SumLines(lines))},
          {TransactionItem(<<1, k>>, 1, lines[k].productId, lines[k].quantity, 1) :
             k \in 1..Len(lines)})

\* What was sold, as transaction 2, since the pages were loaded: nothing, or
\* one cart.
Earlier == {<<>>, <<CartLine("P", MaxQty)>>}

Init ==
  \E stock \in OpeningStocks, bom \in BomChoices, earlier \in Earlier :
    /\ opening = OpeningStore(stock, bom)
    /\ SetStoreNow(IF earlier = <<>> THEN opening
                   ELSE RunAlone(SaleBegin(IdleTab, 2, earlier, 0), opening).st)
    /\ tabs = [p \in Tabs |-> IdleTab]
    /\ nextId = IF earlier = <<>> THEN 2 ELSE 3
    /\ nops = 0
    /\ ndel = 0
    /\ log = [before |-> Store, prev |-> opening, last |-> IdleTab]

\* ------------------------------------------------------------------ actions
Idle(p) == tabs[p].pc = "idle"

\* A tab is free, and the tabs are used in order.
MayStart(p) == Idle(p) /\ \A q \in Tabs : q < p => ~Idle(q)

SetTab(p, t) == tabs' = [tabs EXCEPT ![p] = t]

SetStore(st) ==
  /\ products' = st.products
  /\ transactions' = st.transactions
  /\ items' = st.items

Begin(p, t) ==
  /\ nops < MaxOps
  /\ SetTab(p, t)
  /\ nops' = nops + 1
  /\ log' = IF \A q \in Tabs : Idle(q)
              THEN [log EXCEPT !.before = Store, !.prev = log.before]
              ELSE log
  /\ UNCHANGED <<products, transactions, items, opening, ndel>>

\* Finalizar venda, with the cart the form holds: filled from the product
\* list as it is now or as it was when the form was opened.
StartSale(p, cart, discount) ==
  /\ MayStart(p)
  /\ CartAccepted(cart, products) \/ CartAccepted(cart, opening.products)
  /\ Begin(p, SaleBegin(IdleTab, nextId, cart, discount))
  /\ nextId' = nextId + 1

StartPurchase(p, lines, discount, supplier) ==
  /\ MayStart(p)
  /\ Begin(p, PurchaseBegin(IdleTab, Store, nextId, lines, discount, supplier))
  /\ nextId' = nextId + 1

StartAssembly(p, pid, qty) ==
  /\ MayStart(p)
  /\ products[pid].exists
  /\ Begin(p, AssemblyBegin(IdleTab, nextId, pid, qty))
  /\ nextId' = nextId + 1

\* Estornar, in a details dialog: the dialog shows a transaction of the list
\* as loaded now or at opening, with the items loaded then or reloaded since.
StartRevert(p, t, stale) ==
  /\ MayStart(p)
  /\ t \in transactions \cup opening.transactions
  /\ Begin(p, RevertBegin(IdleTab, t,
                          ItemsSeq(t.id, IF stale THEN opening.items ELSE items)))
  /\ UNCHANGED nextId

\* One step of a running handler, from one await to the next.
Take(p, r) ==
  /\ SetTab(p, r.tab)
  /\ SetStore(r.st)
  /\ UNCHANGED <<opening, nextId, nops, ndel, log>>

SaleRead(p) ==
  /\ tabs[p].kind = "sale" /\ tabs[p].pc = "read"
  /\ Take(p, SaleGet(tabs[p], Store))

SaleCost(p) ==
  /\ tabs[p].kind = "sale" /\ tabs[p].pc = "cost"
  /\ Take(p, SaleCostGet(tabs[p], Store))

AssemblyRead(p) ==
  /\ tabs[p].kind = "assembly" /\ tabs[p].pc = "read"
  /\ Take(p, AssemblyGet(tabs[p], Store))

RevertFetchItems(p) ==
  /\ tabs[p].kind = "revert" /\ tabs[p].pc \in {"fetch", "fbfetch"}
  /\ Take(p, RevertFetch(tabs[p], Store))

RevertRead(p) ==
  /\ tabs[p].kind = "revert" /\ tabs[p].pc \in {"read", "fbread"}
  /\ Take(p, RevertGet(tabs[p], Store))

Commit(p) ==
  /\ tabs[p].pc \in {"commit", "fbcommit"}
  /\ Take(p, CommitStep(tabs[p], Store))

\* The handler has returned and the tab is free for the next operation.
Finish(p) ==
  /\ tabs[p].pc \in {"done", "failed"}
  /\ SetTab(p, IdleTab)
  /\ log' = [log EXCEPT !.last = tabs[p]]
  /\ UNCHANGED <<products, transactions, items, opening, nextId, nops, ndel>>

\* handleDelete of the inventory table, used at most n times.
DeleteUpTo(pid, n) ==
  /\ products[pid].exists
  /\ ndel < n
  /\ SetStore(StorageDelete(Store, "products", pid))
  /\ ndel' = ndel + 1
  /\ UNCHANGED <<tabs, opening, nextId, nops, log>>

DeleteProduct(pid) == DeleteUpTo(pid, MaxDeletes)

\* The same, beside the single operation of one tab.
DeleteBeside(pid) == DeleteUpTo(pid, MaxSoloDeletes)

\* The same, while no operation is running.
DeleteWhileIdle(pid) ==
  /\ \A p \in Tabs : Idle(p)
  /\ DeleteProduct(pid)

Start(p, discounts) ==
  \/ \E cart \in Carts, d \in discounts : StartSale(p, cart, d)
  \/ \E lines \in PurchaseForms, d \in discounts, s \in Suppliers :
       StartPurchase(p, lines, d, s)
  \/ \E pid \in Finals, qty \in Qtys : StartAssembly(p, pid, qty)
  \/ \E t \in transactions \cup opening.transactions, stale \in BOOLEAN :
       StartRevert(p, t, stale)

Step(p) ==
  \/ SaleRead(p)
  \/ SaleCost(p)
  \/ AssemblyRead(p)
  \/ RevertFetchItems(p)
  \/ RevertRead(p)
  \/ Commit(p)

\* Two tabs, each running one operation, with the steps interleaved and the
\* inventory page deleting products in between.
Next ==
  \/ \E p \in Tabs : Start(p, {0})
  \/ \E p \in Tabs : Step(p)
  \/ \E pid \in Prods : DeleteProduct(pid)

Spec == Init /\ [][Next]_vars

\* One tab running one operation after the other, nothing else touching the
\* store while an operation runs.
SeqNext ==
  \/ Start(1, Discounts)
  \/ Step(1)
  \/ Finish(1)
  \/ \E pid \in Prods : DeleteWhileIdle(pid)

SeqSpec == Init /\ [][SeqNext]_vars

\* "Quantidade a montar" is passed on as typed: the dialog does not check it.
UncheckedQtys == (0 - MaxQty)..0

\* One tab running a single operation while the inventory page deletes
\* products between its steps.
SoloNext ==
  \/ Start(1, Discounts)
  \/ \E lines \in WidePurchaseForms, d \in Discounts, s \in Suppliers :
       StartPurchase(1, lines, d, s)
  \/ \E pid \in Finals, qty \in UncheckedQtys : StartAssembly(1, pid, qty)
  \/ Step(1)
  \/ \E pid \in Prods : DeleteBeside(pid)

SoloSpec == Init /\ [][SoloNext]_vars

\* ------------------------------------------------------- the product dialog
\* The values the product form submits: the keys of formSchema, of which the
\* model keeps bom and supplierId.  currentStock and costPrice are no keys of
\* the schema, so the resolver drops them from what form.reset copied.
FormValues(bom, supplier) == [bom |-> bom, supplierId |-> supplier]

\* The forms the dialog can submit for product pid.
ProductForms(pid) ==
  {FormValues(bom, s) : bom \in (IF pid = "F" THEN BomChoices \cup {<<>>} ELSE {<<>>}),
                        s \in Suppliers}

\* A variant of the edit that submits the product the dialog was opened
\* with, overlaid with the form's values.
onSubmitEditSpread(st, product, pid, values) ==
  IF st.products[pid].exists
    THEN [st EXCEPT !.products[pid] =
            [@ EXCEPT !.currentStock = product.currentStock,
                      !.costPrice = product.costPrice,
                      !.bom = values.bom, !.supplierId = values.supplierId]]
    ELSE st

\* onSubmit of an edit: updateDoc with the form's values; storage.update
\* overlays them on the document it finds and throws when there is none, which
\* the dialog catches.
onSubmitEdit(st, product, pid, values) ==
  IF st.products[pid].exists
    THEN [st EXCEPT !.products[pid] =
            [@ EXCEPT !.bom = values.bom, !.supplierId = values.supplierId]]
    ELSE st

\* onSubmit of a new product: addDoc with currentStock 0 and costPrice 0,
\* then the update that stores the id.
onSubmitCreate(st, pid, values) ==
  [st EXCEPT !.products[pid] = Product(0, 0, values.supplierId, values.bom)]

\* The dialog was opened on a product whose stock has changed since, and is
\* submitted while an operation is applying its writes.
StaleEdit(pid, product) ==
  /\ products[pid].exists
  /\ product.currentStock # products[pid].currentStock
  /\ \E p \in Tabs : tabs[p].pc \in {"commit", "fbcommit"} /\ tabs[p].wrote > 0

\* Salvar in the dialog opened on a product of the list as it is now or as it
\* was when the page was loaded.
EditProduct(pid, product, values) ==
  /\ product \in {products[pid], opening.products[pid]}
  /\ product.exists
  /\ SetStore(onSubmitEdit(Store, product, pid, values))
  /\ log' = [log EXCEPT !.edit = @ \/ StaleEdit(pid, product)]
  /\ UNCHANGED <<tabs, opening, nextId, nops, ndel>>

\* Salvar in the dialog opened for a new product; pid stands for the fresh id,
\* which nothing refers to yet.
CreateProduct(pid, values) ==
  /\ ~products[pid].exists
  /\ \A it \in items : it.productId # pid
  /\ \A p \in Tabs : \A k \in 1..Len(tabs[p].lines) : tabs[p].lines[k].productId # pid
  /\ SetStore(onSubmitCreate(Store, pid, values))
  /\ UNCHANGED <<tabs, opening, nextId, nops, ndel, log>>

\* What was sold, as transaction 2, since the pages were loaded, in a catalog
\* without P.
CatalogEarlier == {<<>>, <<CartLine("F", MaxQty)>>}

\* The catalog before product P was created: F and C were bought as
\* transaction 1, the dialog has submitted nothing yet.
CatalogInit ==
  \E bom \in BomChoices, earlier \in CatalogEarlier :
    /\ opening = [OpeningStore([P |-> 0, F |-> 1, C |-> 4], bom)
                    EXCEPT !.products["P"] = NoProduct]
    /\ SetStoreNow(IF earlier = <<>> THEN opening
                   ELSE RunAlone(SaleBegin(IdleTab, 2, earlier, 0), opening).st)
    /\ tabs = [p \in Tabs |-> IdleTab]
    /\ nextId = IF earlier = <<>> THEN 2 ELSE 3
    /\ nops = 0
    /\ ndel = 0
    /\ log = [before |-> Store, prev |-> opening, last |-> IdleTab, edit |-> FALSE]

\* One tab running a single operation while the product dialog creates and
\* edits products between its steps.
CatalogNext ==
  \/ Start(1, {0})
  \/ Step(1)
  \/ \E pid \in Prods :
       \E product \in {products[pid], opening.products[pid]},
          values \in ProductForms(pid) : EditProduct(pid, product, values)
  \/ \E pid \in Prods : \E values \in ProductForms(pid) : CreateProduct(pid, values)

CatalogSpec == CatalogInit /\ [][CatalogNext]_vars

\* ------------------------------------------- the virtual stock on its own
\* Inputs of computeVirtualStock: the stocks of the components P and C, the
\* quantities per unit and the BOMs of up to two entries of the final product.
VirtualStocks == (0 - MaxQty)..(MaxQty + 1)
VirtualQuantities == (0 - 1)..(MaxQty - 1)
VirtualEntries == {BomEntry(c, q) : c \in {"P", "C"}, q \in VirtualQuantities}
VirtualBoms ==
  {<<>>} \cup {<<e>> : e \in VirtualEntries}
         \cup {<<e1, e2>> : e1 \in VirtualEntries, e2 \in VirtualEntries}

VirtualInit ==
  \E sp \in VirtualStocks, sc \in VirtualStocks, listed \in BOOLEAN, bom \in VirtualBoms :
    /\ opening = StoreOf([p \in Prods |->
                            CASE p = "F" -> Product(1, 1, "S0", bom)
                              [] p = "C" -> Product(sc, 1, "S0", <<>>)
                              [] OTHER -> IF listed THEN Product(sp, 1, "S0", <<>>)
                                          ELSE NoProduct],
                         {}, {})
    /\ SetStoreNow(opening)
    /\ tabs = [p \in Tabs |-> IdleTab]
    /\ nextId = 1
    /\ nops = 0
    /\ ndel = 0
    /\ log = [before |-> Store, prev |-> opening, last |-> IdleTab,
              shown |-> FALSE, final |-> NoProduct, loaded |-> FALSE, result |-> 0]

\* The inventory table or the sale form computes the virtual stock of the
\* product it holds, which may be none, from the list it holds, which may not
\* be loaded yet.
ShowVirtualStock(finalProduct, loaded) ==
  /\ log' = [log EXCEPT !.shown = TRUE, !.final = finalProduct, !.loaded = loaded,
                        !.result = computeVirtualStockOf(finalProduct,
                                                         ProductList(loaded, products))]
  /\ UNCHANGED <<products, transactions, items, tabs, opening, nextId, nops, ndel>>

VirtualNext ==
  \E finalProduct \in {products["F"], NoProduct}, loaded \in BOOLEAN :
    ShowVirtualStock(finalProduct, loaded)

VirtualSpec == VirtualInit /\ [][VirtualNext]_vars

\* ------------------------------------------------------------------ history
Returned(tab) == tab.pc \in {"done", "failed"}

\* The handler of a returned tab as it was when it began, against store st.
Restart(tab, st) ==
  CASE tab.kind = "sale" -> SaleBegin(IdleTab, tab.tid, tab.lines, tab.discount)
    [] tab.kind = "purchase" ->
         PurchaseBegin(IdleTab, st, tab.tid, tab.lines, tab.discount, tab.supplier)
    [] tab.kind = "assembly" ->
         AssemblyBegin(IdleTab, tab.tid, tab.lines[1].productId, tab.lines[1].quantity)
    [] tab.kind = "revert" ->
         RevertBegin(IdleTab, Transaction(tab.tid, tab.type, "COMPLETED", 0, 0, 0), tab.held)
    [] OTHER -> IdleTab

\* The store after the operations of tabs a and b run one after the other,
\* each on its own, from store st.
Serial(a, b, st) ==
  LET first == RunAlone(Restart(tabs[a], st), st).st
  IN RunAlone(Restart(tabs[b], first), first).st

\* Nothing else is running beside the operation of tab p.
Alone(p) == \A q \in Tabs \ {p} : Idle(q)

\* No transaction and no item of transaction tid is in the store.
Untouched(tid) ==
  /\ \A t \in transactions : t.id # tid
  /\ \A it \in items : it.transactionId # tid

\* Every product has the stock it has in st, and the transactions and items
\* are those of st.
SameAsIn(st) ==
  /\ \A pid \in Prods :
       products[pid].exists => products[pid].currentStock = st.products[pid].currentStock
  /\ transactions = st.transactions
  /\ items = st.items

\* The quantities of a set of items added up.
RECURSIVE SumQuantity(_)
SumQuantity(its) ==
  IF its = {} THEN 0
  ELSE LET it == CHOOSE x \in its : TRUE IN it.quantity + SumQuantity(its \ {it})

\* The quantity of product pid on the items of the transactions of one type.
Moved(pid, type) ==
  SumQuantity({it \in items :
                 /\ it.productId = pid
                 /\ \E t \in transactions : t.id = it.transactionId /\ t.type = type})

\* The units of a sale line the stock of st cannot cover.
LineShortfall(line, st) ==
  Max(0, line.quantity - Min(st.products[line.productId].currentStock, line.quantity))

\* The BOM entries of a sale line's product for which the line asks more of
\* the component than st holds.
Starved(line, st) ==
  LET bom == st.products[line.productId].bom IN
  {k \in 1..Len(bom) :
     LineShortfall(line, st) * bom[k].quantity > st.products[bom[k].productId].currentStock}

\* What the lines of a sale take of component c when the stock of st does
\* not cover them: over every line and every entry of its product's BOM that
\* names c, the line's shortfall times the entry's quantity per unit.
RECURSIVE EntryNeed(_, _, _, _)
EntryNeed(bom, e, c, short) ==
  IF e > Len(bom) THEN 0
  ELSE (IF bom[e].productId = c THEN short * bom[e].quantity ELSE 0)
       + EntryNeed(bom, e + 1, c, short)

RECURSIVE ComponentNeed(_, _, _, _)
ComponentNeed(lines, k, c, st) ==
  IF k > Len(lines) THEN 0
  ELSE EntryNeed(st.products[lines[k].productId].bom, 1, c, LineShortfall(lines[k], st))
       + ComponentNeed(lines, k + 1, c, st)

\* Every product of the lines, and every component of their BOMs, is in st.
AllKnown(lines, st) ==
  \A k \in 1..Len(lines) :
    LET rec == st.products[lines[k].productId] IN
    /\ rec.exists
    /\ \A e \in 1..Len(rec.bom) : st.products[rec.bom[e].productId].exists

\* ------------------------------------------------------------------- claims
\* C1: once two concurrently started stock-affecting operations have both
\* returned, the stocks and the committed transactions and items are those
\* of running the two operations one after the other in some order.
C1_SerialOutcome ==
  ((\A p \in Tabs : Returned(tabs[p])) /\ ndel = 0)
    => Store \in {Serial(1, 2, log.before), Serial(2, 1, log.before)}

ValidationErrors == {"NotFound", "ComponentNotFound", "InsufficientComponentStock"}

FailedValidation(p) ==
  /\ tabs[p].kind = "sale"
  /\ tabs[p].pc = "failed"
  /\ tabs[p].err.kind \in ValidationErrors

\* C2: a sale that fails validation on any of its lines (product missing,
\* component missing, component stock insufficient) has written nothing: no
\* transaction and no item of it exists, and when nothing else was running
\* every stock, transaction and item is as it was when the sale began.
C2_FailedSaleWritesNothing ==
  \A p \in Tabs :
    FailedValidation(p) =>
      /\ tabs[p].wrote = 0
      /\ Untouched(tabs[p].tid)
      /\ Alone(p) => SameAsIn(log.before)

\* C2 happens: a sale of two lines fails on its second line, after the first
\* line passed its checks, with nothing else running.
C2_Witness ==
  \E p \in Tabs :
    /\ FailedValidation(p)
    /\ Alone(p)
    /\ Len(tabs[p].lines) = 2
    /\ tabs[p].i = 2

\* C3: a sale with a line of a product without BOM that asks for more than
\* the product's stock fails with InsufficientStock and changes nothing.
C3_InsufficientStock ==
  \A p \in Tabs :
    ( /\ Alone(p)
      /\ tabs[p].kind = "sale"
      /\ Returned(tabs[p])
      /\ AllKnown(tabs[p].lines, log.before)
      /\ \E k \in 1..Len(tabs[p].lines) :
           LET line == tabs[p].lines[k]
               rec == log.before.products[line.productId]
           IN Len(rec.bom) = 0 /\ line.quantity > rec.currentStock )
    => /\ tabs[p].pc = "failed"
       /\ tabs[p].err.kind = "InsufficientStock"
       /\ SameAsIn(log.before)

\* C4: after sales and purchases only, run one at a time and all committed,
\* the stock of product P (no BOM, not a component) is what was purchased of
\* it minus what was sold of it; its stock before the first purchase was 0.
C4_Conservation ==
  ( /\ \A p \in Tabs : Idle(p)
    /\ Cardinality(transactions) = nextId - 1
    /\ \A t \in transactions : t.type \in {"IN", "OUT"}
    /\ ndel = 0 )
  => products["P"].currentStock = Moved("P", "OUT") - Moved("P", "IN")

\* Tab p has reverted, with nothing else running, the transaction of the
\* operation that returned just before.
RevertedLast(p, kind) ==
  /\ Alone(p)
  /\ tabs[p].kind = "revert"
  /\ Returned(tabs[p])
  /\ log.last.kind = kind
  /\ log.last.pc = "done"
  /\ log.last.tid = tabs[p].tid

\* C5: reverting a completed sale of products without BOM puts the stock of
\* every product sold back to what it was just before the sale and leaves
\* neither the transaction nor any of its items.
C5_RevertRestoresSale ==
  \A p \in Tabs :
    ( /\ RevertedLast(p, "sale")
      /\ \A k \in 1..Len(log.last.lines) :
           /\ Len(log.prev.products[log.last.lines[k].productId].bom) = 0
           /\ products[log.last.lines[k].productId].exists )
    => /\ tabs[p].pc = "done"
       /\ \A k \in 1..Len(log.last.lines) :
            products[log.last.lines[k].productId].currentStock
              = log.prev.products[log.last.lines[k].productId].currentStock
       /\ Untouched(tabs[p].tid)

\* C6: a second revert of a transaction already reverted fails, as already
\* cancelled or not found, and changes no stock.
C6_SecondRevertFails ==
  \A p \in Tabs :
    RevertedLast(p, "revert")
    => /\ tabs[p].pc = "failed"
       /\ tabs[p].err.kind \in {"AlreadyCancelled", "NotFound"}
       /\ SameAsIn(log.before)

\* What a revert has to add to the stock of the product of item k of a
\* transaction of n items: the opposite of what the operation did.  Purchased
\* products and the assembled final product (the last item) were increased;
\* sold products and the components of an assembly were decreased.
InverseChange(type, k, n, quantity) ==
  CASE type = "OUT" -> 0 - quantity
    [] type = "IN" -> quantity
    [] type = "ASSEMBLY" -> IF k = n THEN 0 - quantity ELSE quantity
    [] OTHER -> 0

RECURSIVE InverseTotal(_, _, _, _)
InverseTotal(type, lines, k, pid) ==
  IF k > Len(lines) THEN 0
  ELSE (IF lines[k].productId = pid
          THEN InverseChange(type, k, Len(lines), lines[k].quantity)
          ELSE 0)
       + InverseTotal(type, lines, k + 1, pid)

\* C7: a revert of a transaction of any type changes the stock of every
\* product of its items that still exists by the inverse of what the
\* operation did to it.
C7_RevertAppliesInverse ==
  \A p \in Tabs :
    ( /\ Alone(p)
      /\ tabs[p].kind = "revert"
      /\ tabs[p].pc = "done"
      /\ ItemsSeq(tabs[p].tid, log.before.items) = tabs[p].lines )
    => \A pid \in Prods :
         products[pid].exists
           => products[pid].currentStock
                = log.before.products[pid].currentStock
                  + InverseTotal(tabs[p].type, tabs[p].lines, 1, pid)

\* C8: when a queued write of runTransaction fails while the queue is being
\* applied, none of the queue's writes is in the store.
C8_CommitAllOrNothing ==
  \A p \in Tabs :
    ( /\ tabs[p].kind \in {"sale", "assembly"}
      /\ tabs[p].pc = "failed"
      /\ tabs[p].err.kind = "StorageFailure" )
    => /\ tabs[p].wrote = 0
       /\ Untouched(tabs[p].tid)

\* C9: a successful sale takes min(stock, quantity) from the stock of each
\* product sold and credits it nothing, takes shortfall x quantity per unit
\* from each BOM component, and writes exactly one transaction of type IN
\* with netTotal = sum of quantity x price - discount and exactly one item
\* per line carrying the line's quantity and price.
C9_SaleEffects ==
  \A p \in Tabs :
    ( /\ Alone(p)
      /\ tabs[p].kind = "sale"
      /\ tabs[p].pc = "done" )
    => LET lines == tabs[p].lines
           was == log.before
           sold == {lines[k].productId : k \in 1..Len(lines)}
       IN /\ \A k \in 1..Len(lines) :
               products[lines[k].productId].currentStock
                 = was.products[lines[k].productId].currentStock
                   - Min(was.products[lines[k].productId].currentStock, lines[k].quantity)
          /\ \A c \in Prods \ sold :
               products[c].currentStock
                 = was.products[c].currentStock - ComponentNeed(lines, 1, c, was)
          /\ transactions
               = was.transactions
                 \cup {Transaction(tabs[p].tid, "IN", "COMPLETED", SumLines(lines),
                                   tabs[p].discount, SumLines(lines) - tabs[p].discount)}
          /\ items
               = was.items
                 \cup {TransactionItem(<<tabs[p].tid, k>>, tabs[p].tid, lines[k].productId,
                                       lines[k].quantity, lines[k].price) :
                         k \in 1..Len(lines)}
          /\ Cardinality(items) = Cardinality(was.items) + Len(lines)

\* C10: a sale of a BOM product whose shortfall asks of some component more
\* than the component's stock fails with an error naming that component, the
\* amount required and the amount available, and changes no stock, whether of
\* the final product or of a component.
C10_ComponentInsufficient ==
  \A p \in Tabs :
    ( /\ Alone(p)
      /\ tabs[p].kind = "sale"
      /\ Returned(tabs[p])
      /\ AllKnown(tabs[p].lines, log.before)
      /\ \E k \in 1..Len(tabs[p].lines) : Starved(tabs[p].lines[k], log.before) # {} )
    => /\ tabs[p].pc = "failed"
       /\ \E k \in 1..Len(tabs[p].lines) :
            \E e \in Starved(tabs[p].lines[k], log.before) :
              LET comp == log.before.products[tabs[p].lines[k].productId].bom[e] IN
              tabs[p].err
                = Err("InsufficientComponentStock", comp.productId,
                      LineShortfall(tabs[p].lines[k], log.before) * comp.quantity,
                      log.before.products[comp.productId].currentStock)
       /\ tabs[p].wrote = 0
       /\ SameAsIn(log.before)

\* C10 happens: a sale has returned whose line of a BOM product is short of
\* the product and asks of a component more than there is.
C10_Witness ==
  \E p \in Tabs :
    /\ Alone(p)
    /\ tabs[p].kind = "sale"
    /\ Returned(tabs[p])
    /\ AllKnown(tabs[p].lines, log.before)
    /\ \E k \in 1..Len(tabs[p].lines) :
         /\ LineShortfall(tabs[p].lines[k], log.before) > 0
         /\ Starved(tabs[p].lines[k], log.before) # {}
    /\ tabs[p].err.required > tabs[p].err.available

C12_StockNonNegative ==
  \A pid \in Prods : products[pid].exists => products[pid].currentStock >= 0

C14_FailedRevertChangesNothing ==
  ( /\ tabs[1].kind = "revert"
    /\ tabs[1].pc = "failed"
    /\ tabs[1].err.kind = "StorageFailure" )
  => /\ transactions = log.before.transactions
     /\ items = log.before.items
     /\ \A pid \in Prods :
          products[pid].exists
            => products[pid].currentStock = log.before.products[pid].currentStock

\* C15: a revert beside which one product of the transaction's items is
\* deleted, before the revert or between its reads and its writes, does not
\* fail: it applies the inverse adjustment to every surviving product and
\* deletes the transaction and all its items.
C15_RevertSkipsDeleted ==
  ( /\ tabs[1].kind = "revert"
    /\ Returned(tabs[1])
    /\ ndel = 1 )
  => /\ tabs[1].pc = "done"
     /\ Untouched(tabs[1].tid)
     /\ \A pid \in Prods :
          products[pid].exists
            => products[pid].currentStock
                 = log.before.products[pid].currentStock
                   + InverseTotal(tabs[1].type,
                                  ItemsSeq(tabs[1].tid, log.before.items), 1, pid)

\* C16: a purchase that succeeded has added each line's quantity to the stock
\* of the line's product, set that product's costPrice to the line's cost and
\* its supplierId to the purchase's supplier, and has written exactly one
\* transaction of type OUT with netTotal = sum of quantity x cost - discount
\* and exactly one item per line.
C16_PurchaseEffects ==
  (tabs[1].kind = "purchase" /\ tabs[1].pc = "done")
  => LET lines == tabs[1].lines
         tid == tabs[1].tid
         subtotal == SumLines(lines)
     IN /\ \A k \in 1..Len(lines) :
             LET pid == lines[k].productId IN
             products[pid].exists
               => /\ products[pid].currentStock
                       = log.before.products[pid].currentStock + lines[k].quantity
                  /\ products[pid].costPrice = lines[k].price
                  /\ products[pid].supplierId = tabs[1].supplier
        /\ {t \in transactions : t.id = tid}
             = {Transaction(tid, "OUT", "COMPLETED", subtotal, tabs[1].discount,
                            subtotal - tabs[1].discount)}
        /\ {it \in items : it.transactionId = tid}
             = {TransactionItem(<<tid, k>>, tid, lines[k].productId,
                                lines[k].quantity, lines[k].price) : k \in 1..Len(lines)}

\* C17: a purchase one of whose batched writes failed has committed nothing:
\* no transaction and no item of it is in the store, and no product's
\* currentStock, costPrice or supplierId has changed.
C17_FailedPurchaseWritesNothing ==
  ( /\ tabs[1].kind = "purchase"
    /\ tabs[1].pc = "failed"
    /\ tabs[1].err.kind = "StorageFailure" )
  => /\ Untouched(tabs[1].tid)
     /\ \A pid \in Prods :
          products[pid].exists => products[pid] = log.before.products[pid]

\* The lines of an operation name a product that st does not hold: a product
\* of a purchase or sale line, the final product of an assembly, or a BOM
\* component the sale (for a line short of stock) or the assembly looks up.
NamesMissing(tab, st) ==
  \E k \in 1..Len(tab.lines) :
    LET line == tab.lines[k]
        rec == st.products[line.productId]
    IN \/ ~rec.exists
       \/ /\ tab.kind = "assembly" \/ (tab.kind = "sale" /\ LineShortfall(line, st) > 0)
          /\ \E e \in 1..Len(rec.bom) : ~st.products[rec.bom[e].productId].exists

\* Nothing of the store has been written since the operation began; products
\* deleted on the inventory page aside.
NothingWritten ==
  /\ transactions = log.before.transactions
  /\ items = log.before.items
  /\ \A pid \in Prods : products[pid].exists => products[pid] = log.before.products[pid]

\* C18: a sale, a purchase or an assembly that names a product or a BOM
\* component the store does not hold fails on its validation before any
\* write: no stock has changed and no transaction or item was created.
C18_MissingProductFails ==
  ( /\ tabs[1].kind \in {"sale", "purchase", "assembly"}
    /\ Returned(tabs[1])
    /\ NamesMissing(tabs[1], log.before) )
  => /\ tabs[1].pc = "failed"
     /\ tabs[1].err.kind \in ValidationErrors
     /\ NothingWritten

\* The units of product pid a purchase has added so far: the quantities of
\* its lines for pid whose update has left the batch's queue.
RECURSIVE PurchasedSoFar(_, _, _)
PurchasedSoFar(tab, k, pid) ==
  IF tab.kind # "purchase" \/ k > Len(tab.lines) THEN 0
  ELSE (IF /\ tab.lines[k].productId = pid
           /\ \A i \in 1..Len(tab.queue) :
                ~(tab.queue[i].type = "update" /\ tab.queue[i].id = pid)
          THEN tab.lines[k].quantity
          ELSE 0)
       + PurchasedSoFar(tab, k + 1, pid)

\* C19: while and after two purchases naming the same product run in two
\* tabs, with their store writes interleaved in any order, the product's
\* stock is its stock before the purchases plus the quantity of every
\* purchase whose update has been applied; once both have succeeded it is
\* the initial stock plus both quantities.
C19_ConcurrentPurchasesAdd ==
  (\A p \in Tabs : tabs[p].kind = "purchase")
  => \A pid \in Prods :
       ( /\ products[pid].exists
         /\ \A p \in Tabs : tabs[p].lines[1].productId = pid )
       => products[pid].currentStock
            = log.before.products[pid].currentStock
              + PurchasedSoFar(tabs[1], 1, pid) + PurchasedSoFar(tabs[2], 1, pid)

\* The second purchase has succeeded between two writes of the first.
C19_Witness ==
  /\ \A p \in Tabs : tabs[p].kind = "purchase" /\ tabs[p].lines[1].productId = "P"
  /\ tabs[1].pc = "commit"
  /\ tabs[1].wrote > 0
  /\ tabs[2].pc = "done"
  /\ products["P"].exists
  /\ products["P"].currentStock = log.before.products["P"].currentStock + MaxQty

\* C20: an assembly of q units that succeeded has taken q x quantity per
\* unit of every BOM entry from the entry's component, added q to the final
\* product, and written exactly one transaction of type ASSEMBLY with zero
\* totals, one item per BOM entry consumed and one zero-price item for the
\* final product.
C20_AssemblyEffects ==
  \A p \in Tabs :
    (Alone(p) /\ tabs[p].kind = "assembly" /\ tabs[p].pc = "done")
    => LET tid == tabs[p].tid
           fin == tabs[p].lines[1]
           bom == log.before.products[fin.productId].bom
           n == Len(bom)
       IN /\ \A c \in Prods \ {fin.productId} :
               products[c].exists
                 => products[c].currentStock
                      = log.before.products[c].currentStock
                        - EntryNeed(bom, 1, c, fin.quantity)
          /\ products[fin.productId].currentStock
               = log.before.products[fin.productId].currentStock + fin.quantity
          /\ {t \in transactions : t.id = tid}
               = {Transaction(tid, "ASSEMBLY", "COMPLETED", 0, 0, 0)}
          /\ {it \in items : it.transactionId = tid}
               = {TransactionItem(<<tid, k>>, tid, bom[k].productId,
                                  fin.quantity * bom[k].quantity, 0) : k \in 1..n}
                 \cup {TransactionItem(<<tid, n + 1>>, tid, fin.productId, fin.quantity, 0)}

\* C21: an assembly fails with NoBomDefined when the product has no BOM and
\* with InsufficientComponentStock when quantity x quantity per unit of some
\* BOM entry exceeds the component's stock, so an assembly that succeeded had
\* a BOM every entry of which the stock covered; after either failure no
\* stock has changed and no transaction or item was created.
C21_AssemblyFailures ==
  tabs[1].kind = "assembly"
  => /\ ( /\ tabs[1].pc = "failed"
          /\ tabs[1].err.kind \in {"NoBomDefined", "InsufficientComponentStock"} )
        => (tabs[1].wrote = 0 /\ SameAsIn(log.before))
     /\ ( /\ tabs[1].pc = "failed"
          /\ tabs[1].err.kind = "InsufficientComponentStock" )
        => tabs[1].err.required > products[tabs[1].err.product].currentStock
     /\ tabs[1].pc \in {"commit", "done"}
        => LET bom == tabs[1].details[1].bom IN
           /\ Len(bom) > 0
           /\ \A e \in 1..Len(bom) :
                tabs[1].lines[1].quantity * bom[e].quantity
                  <= log.before.products[bom[e].productId].currentStock

\* An assembly of F failed because the dialog had meanwhile removed its BOM.
C21_Witness ==
  /\ tabs[1].kind = "assembly"
  /\ tabs[1].pc = "failed"
  /\ tabs[1].err.kind = "NoBomDefined"
  /\ tabs[1].lines[1].productId = "F"
  /\ Len(log.before.products["F"].bom) > 0

\* The stock computeVirtualStock takes for a component: 0 when the list does
\* not hold it.
ListedStock(pid) == IF products[pid].exists THEN products[pid].currentStock ELSE 0

\* The units of the final product each BOM entry's component stock yields.
Producible(bom) == {ListedStock(bom[k].productId) \div bom[k].quantity : k \in 1..Len(bom)}

\* The inputs for which the result is 0 whatever the stocks: no product, no
\* list, no BOM, or an entry of quantity <= 0.
VirtualStockVoid ==
  \/ ~log.final.exists
  \/ ~log.loaded
  \/ Len(log.final.bom) = 0
  \/ \E k \in 1..Len(log.final.bom) : log.final.bom[k].quantity <= 0

C23_NetTotal ==
  \A t \in transactions : t.netTotal = t.totalValue - t.discountValue

\* A sale and a purchase, both with a discount, are in the store.
C23_Witness ==
  /\ \E t \in transactions : t.type = "IN" /\ t.discountValue > 0 /\ t.totalValue > 0
  /\ \E t \in transactions : t.type = "OUT" /\ t.discountValue > 0 /\ t.totalValue > 0

\* C24: in every reachable state, the states between the queued writes of a
\* sale, purchase, assembly or revert included, every stored item's
\* transactionId is the id of a stored transaction.
C24_ItemsHaveTransaction ==
  \A it \in items : \E t \in transactions : t.id = it.transactionId

\* C25: a step of the product dialog changes no stock: saving an edit leaves
\* every product's currentStock as the store holds it when the update is
\* applied, also between the writes of a running operation and when the
\* dialog was opened on an older stock; saving a new product stores it with
\* currentStock 0 and leaves the others alone.
C25_CatalogKeepsStock ==
  [][ /\ (\E pid \in Prods :
            \E product \in {products[pid], opening.products[pid]},
               values \in ProductForms(pid) : EditProduct(pid, product, values))
         => \A q \in Prods :
              /\ products'[q].exists = products[q].exists
              /\ products'[q].currentStock = products[q].currentStock
      /\ \A pid \in Prods :
           (\E values \in ProductForms(pid) : CreateProduct(pid, values))
             => /\ products'[pid].exists
                /\ products'[pid].currentStock = 0
                /\ \A q \in Prods \ {pid} : products'[q] = products[q] ]_vars

\* An edit was saved from a dialog opened on an older stock while an
\* operation was applying its writes, and a product was created.
C25_Witness ==
  /\ log.edit
  /\ products["P"].exists

\* C26: a sale that succeeded while a line short of stock had a BOM naming
\* component c more than once needed of c, all entries together, at most the
\* stock of c, and has decreased the stock of c by that sum.
C26_SharedComponent ==
  \A p \in Tabs :
    (Alone(p) /\ tabs[p].kind = "sale" /\ tabs[p].pc = "done")
    => \A c \in Prods :
         LET need == ComponentNeed(tabs[p].lines, 1, c, log.before)
             twice ==
               \E k \in 1..Len(tabs[p].lines) :
                 LET line == tabs[p].lines[k]
                     bom == log.before.products[line.productId].bom
                 IN /\ LineShortfall(line, log.before) > 0
                    /\ \E e1 \in 1..Len(bom), e2 \in 1..Len(bom) :
                         e1 # e2 /\ bom[e1].productId = c /\ bom[e2].productId = c
         IN (twice /\ products[c].exists)
              => /\ need <= log.before.products[c].currentStock
                 /\ products[c].currentStock = log.before.products[c].currentStock - need

\* C27: a revert that ended in success, by its primary path or by the
\* fallback, has changed the stock of every surviving product by the inverse
\* adjustment of the transaction's items, taken once.
C27_RevertAppliesOnce ==
  (tabs[1].kind = "revert" /\ tabs[1].pc = "done")
  => \A pid \in Prods :
       products[pid].exists
         => products[pid].currentStock
              = log.before.products[pid].currentStock
                + InverseTotal(tabs[1].type, ItemsSeq(tabs[1].tid, log.before.items), 1, pid)

\* C28: reverting a completed sale of a BOM product that was covered in part
\* or wholly from components puts the stock of the product sold and of every
\* component of its BOM back to what it was just before the sale.
C28_RevertRestoresBomSale ==
  \A p \in Tabs :
    ( /\ RevertedLast(p, "sale")
      /\ tabs[p].pc = "done"
      /\ ndel = 0 )
    => \A k \in 1..Len(log.last.lines) :
         LET line == log.last.lines[k]
             rec == log.prev.products[line.productId]
         IN (Len(rec.bom) > 0 /\ LineShortfall(line, log.prev) > 0)
              => /\ products[line.productId].currentStock = rec.currentStock
                 /\ \A e \in 1..Len(rec.bom) :
                      products[rec.bom[e].productId].currentStock
                        = log.prev.products[rec.bom[e].productId].currentStock

\* quantity x price of a set of items added up.
RECURSIVE SumValue(_)
SumValue(its) ==
  IF its = {} THEN 0
  ELSE LET it == CHOOSE x \in its : TRUE
       IN it.quantity * it.price + SumValue(its \ {it})

\* C29: once a sale or a purchase has succeeded, the totalValue of its
\* transaction is the sum of quantity x price over the items stored with its
\* id, also when the purchase form held a line whose product the loaded list
\* did not have.
C29_TotalIsSumOfItems ==
  (tabs[1].kind \in {"sale", "purchase"} /\ tabs[1].pc = "done")
  => \A t \in transactions :
       t.id = tabs[1].tid
         => t.totalValue = SumValue({it \in items : it.transactionId = t.id})

\* C30: an assembly of a quantity <= 0 changes no product's stock, at no
\* point of its run.
C30_NonPositiveAssembly ==
  (tabs[1].kind = "assembly" /\ tabs[1].lines[1].quantity <= 0)
  => \A pid \in Prods :
       products[pid].exists
         => products[pid].currentStock = log.before.products[pid].currentStock

====
